---- MODULE Spec2Model ----
(***************************************************************************)
(* Harvest Horizon (src/app.py): the climate data fetcher with its cache   *)
(* and fallback generator, the farming simulator (analysis,                *)
(* recommendations, yield scoring) and the session flow around them.       *)
(*                                                                         *)
(* Units.  Raw climate values are integers in thousandths of their unit.   *)
(* avg_temperature is in tenths, avg_precipitation and avg_soil_moisture   *)
(* in hundredths (the precision round() leaves them with).  A yield is in  *)
(* halves of a percent (irr_diff / 2 is a multiple of 0.5): 290 is 145%.   *)
(* Latitude and longitude are in tenths of a degree.  A date is a day      *)
(* number; strftime('%Y%m%d') is injective on days.                        *)
(***************************************************************************)
EXTENDS Integers, Sequences, FiniteSets, TLC

VARIABLES
    cache,            \* NASADataFetcher.cache: cache_key -> data object
    requests,         \* number of requests.get calls issued so far
    next_id,          \* identity of the next data object to be created
    now,              \* datetime.now(), as a day number
    last_call,        \* the last get_climate_data call: arguments and outcome
    game_state,       \* st.session_state.game_state
    game,             \* st.session_state.game: a FarmingSimulator or None
    results,          \* st.session_state.results
    current_scenario, \* st.session_state.current_scenario
    show_dashboard,   \* st.session_state.show_dashboard
    dashboard_file,   \* whether dashboard.html has been written
    decision,         \* the slider values that gave results (None with it)
    observed,         \* some earlier call of the current game: decision, outcome
    analysis,         \* the last analysis handed to generate_recommendations
    recs,             \* [list |-> the list generate_recommendations returned last]
    analyzed          \* the last analyze_conditions call: what it returned or raised

vars == <<cache, requests, next_id, now, last_call, game_state, game, results,
          current_scenario, show_dashboard, dashboard_file, decision, observed,
          analysis, recs, analyzed>>

fetcher_vars == <<cache, requests, next_id, now, last_call>>
session_vars == <<game_state, game, results, current_scenario, show_dashboard,
                  dashboard_file, decision, observed>>
recs_vars == <<analysis, recs, analyzed>>

(***************************************************************************)
(* Bounds of the model.                                                    *)
(***************************************************************************)
MaxDays == 2        \* get_climate_data is called with days in 1..MaxDays
MaxRequests == 2    \* live requests issued in one behaviour
MaxSampleDays == 30 \* _get_sample_data is called with days in 1..MaxSampleDays

\* Python's None.
None == [type |-> "NoneType"]

Max(a, b) == IF a >= b THEN a ELSE b
Min(a, b) == IF a <= b THEN a ELSE b
Abs(a) == IF a >= 0 THEN a ELSE -a

\* sum() of a list.
RECURSIVE Sum(_)
Sum(s) == IF s = <<>> THEN 0 ELSE Head(s) + Sum(Tail(s))

\* round(num / den, n) as an integer count of 10^-n units, the quotient being
\* given in those units: the nearest integer, an exact tie going to the even
\* neighbour (on a float an exact decimal tie follows the binary value).
Round(num, den) ==
    LET q == num \div den
        r == num % den
    IN  IF 2 * r < den THEN q
        ELSE IF 2 * r > den THEN q + 1
        ELSE IF q % 2 = 0 THEN q ELSE q + 1

(***************************************************************************)
(* The scenario table.                                                     *)
(***************************************************************************)
SCENARIOS ==
    [wheat_kansas |->
        [name |-> "Wheat Farm - Kansas, USA", difficulty |-> "Easy",
         location |-> [lat |-> 375, lon |-> -955],
         optimal |-> [irrigation |-> 45, fertilizer |-> 50]],
     corn_iowa |->
        [name |-> "Corn Farm - Iowa, USA", difficulty |-> "Medium",
         location |-> [lat |-> 420, lon |-> -935],
         optimal |-> [irrigation |-> 60, fertilizer |-> 55]],
     rice_california |->
        [name |-> "Rice Farm - California, USA", difficulty |-> "Hard",
         location |-> [lat |-> 390, lon |-> -1215],
         optimal |-> [irrigation |-> 80, fertilizer |-> 45]]]

\* The default of the days parameter.
DefaultDays == 30

(***************************************************************************)
(* Climate data.  A series is the dict date -> value in insertion order: a *)
(* sequence of [date, value] entries.                                      *)
(***************************************************************************)
PARAMETERS == {"T2M", "PRECTOTCORR", "GWETROOT", "ALLSKY_SFC_SW_DWN"}

\* The dates start..end, oldest first.
DateRange(start, end) ==
    [i \in 1..Max(0, end - start + 1) |-> start + i - 1]

\* What the service answers for one profile of weather: for each of the four
\* requested parameters one value per day of start..end.
PowerResponse(start, end, profile) ==
    LET dates == DateRange(start, end)
        series(p) ==
            [i \in 1..Len(dates) |->
                [date |-> dates[i],
                 value |-> profile[p].base + (i - 1) * profile[p].trend]]
    IN  [properties |-> [parameter |-> [p \in PARAMETERS |-> series(p)]]]

\* Weather the live service may report: a hot dry spell, a mild spell with
\* soil moisture just under 0.30, a wet spell.
AridProfile ==
    [T2M |-> [base |-> 31040, trend |-> 10],
     PRECTOTCORR |-> [base |-> 1204, trend |-> 1],
     GWETROOT |-> [base |-> 204, trend |-> 1],
     ALLSKY_SFC_SW_DWN |-> [base |-> 7000, trend |-> 0]]

MildProfile ==
    [T2M |-> [base |-> 18460, trend |-> -20],
     PRECTOTCORR |-> [base |-> 3000, trend |-> 4],
     GWETROOT |-> [base |-> 296, trend |-> 0],
     ALLSKY_SFC_SW_DWN |-> [base |-> 5000, trend |-> 0]]

HumidProfile ==
    [T2M |-> [base |-> 25000, trend |-> 0],
     PRECTOTCORR |-> [base |-> 6500, trend |-> -2],
     GWETROOT |-> [base |-> 704, trend |-> -1],
     ALLSKY_SFC_SW_DWN |-> [base |-> 4000, trend |-> 0]]

ClimateProfiles == {AridProfile, MildProfile, HumidProfile}

\* A JSON document of another shape (the service's error object).
DeviatingPayload == [header |-> "POWER", messages |-> <<"failed">>]

\* The ways requests.get / raise_for_status / response.json can end.
FAILURES == {"timeout", "connection_error", "http_error", "bad_json"}

NetOutcomes(start, end, profiles) ==
    { [kind |-> f, json |-> None] : f \in FAILURES }
    \cup { [kind |-> "ok", json |-> PowerResponse(start, end, p)] :
              p \in profiles }
    \cup { [kind |-> "ok", json |-> DeviatingPayload] }

\* np.random.random(), in thousandths.
RandomLevels == {0, 990}

\* One draw per parameter and day index; here the same level on every day.
UniformDraws(days) ==
    { [p \in PARAMETERS |-> [i \in 0..(days - 1) |-> l]] : l \in RandomLevels }

\* _get_sample_data with the soil moisture draw left unscaled.
_get_sample_data_unscaled_soil(days, today, rnd) ==
    LET dates == DateRange(today - days + 1, today)
        formula(p, i) ==
            CASE p = "T2M" -> 20000 + (i % 10) * 1000 + rnd[p][i] * 3
              [] p = "PRECTOTCORR" -> 2500 + (i % 5) * 1000 + rnd[p][i]
              [] p = "GWETROOT" -> 300 + (i % 3) * 100 + rnd[p][i]
              [] OTHER -> 5500 + rnd[p][i]
        series(p) ==
            [i \in 1..Len(dates) |->
                [date |-> dates[i], value |-> formula(p, i - 1)]]
    IN  [properties |-> [parameter |-> [p \in PARAMETERS |-> series(p)]]]

\* _get_sample_data with the soil moisture cycling over five days.
_get_sample_data_soil_cycle_five(days, today, rnd) ==
    LET dates == DateRange(today - days + 1, today)
        formula(p, i) ==
            CASE p = "T2M" -> 20000 + (i % 10) * 1000 + rnd[p][i] * 3
              [] p = "PRECTOTCORR" -> 2500 + (i % 5) * 1000 + rnd[p][i]
              [] p = "GWETROOT" -> 300 + (i % 5) * 100 + rnd[p][i] \div 10
              [] OTHER -> 5500 + rnd[p][i]
        series(p) ==
            [i \in 1..Len(dates) |->
                [date |-> dates[i], value |-> formula(p, i - 1)]]
    IN  [properties |-> [parameter |-> [p \in PARAMETERS |-> series(p)]]]

\* NASADataFetcher._get_sample_data
_get_sample_data(days, today, rnd) ==
    LET dates == DateRange(today - days + 1, today)
        formula(p, i) ==
            CASE p = "T2M" -> 20000 + (i % 10) * 1000 + rnd[p][i] * 3
              [] p = "PRECTOTCORR" -> 2500 + (i % 5) * 1000 + rnd[p][i]
              [] p = "GWETROOT" -> 300 + (i % 3) * 100 + rnd[p][i] \div 10
              [] OTHER -> 5500 + rnd[p][i]
        series(p) ==
            [i \in 1..Len(dates) |->
                [date |-> dates[i], value |-> formula(p, i - 1)]]
    IN  [properties |-> [parameter |-> [p \in PARAMETERS |-> series(p)]]]

\* cache_key = f"{lat}_{lon}_{days}"
cache_key(lat, lon, days) ==
    ToString(lat) \o "_" \o ToString(lon) \o "_" \o ToString(days)

\* get_climate_data without the cache lookup: every call goes to the network.
get_climate_data_no_lookup(c, lat, lon, days, today, net, rnd, id) ==
    LET key == cache_key(lat, lon, days)
    IN  IF net.kind = "ok"
        THEN LET data == [id |-> id, body |-> net.json]
             IN  [cache |-> [k \in DOMAIN c \cup {key} |->
                                IF k = key THEN data ELSE c[k]],
                  ret |-> data, source |-> "live",
                  raised |-> FALSE, requested |-> TRUE]
        ELSE [cache |-> c,
              ret |-> [id |-> id, body |-> _get_sample_data(days, today, rnd)],
              source |-> "fallback", raised |-> FALSE, requested |-> TRUE]

\* get_climate_data storing the fallback result under the cache key as well.
get_climate_data_caches_fallback(c, lat, lon, days, today, net, rnd, id) ==
    LET key == cache_key(lat, lon, days)
        data == [id |-> id,
                 body |-> IF net.kind = "ok" THEN net.json
                          ELSE _get_sample_data(days, today, rnd)]
    IN  IF key \in DOMAIN c
        THEN [cache |-> c, ret |-> c[key], source |-> "cache",
              raised |-> FALSE, requested |-> FALSE]
        ELSE [cache |-> [k \in DOMAIN c \cup {key} |->
                            IF k = key THEN data ELSE c[k]],
              ret |-> data,
              source |-> IF net.kind = "ok" THEN "live" ELSE "fallback",
              raised |-> FALSE, requested |-> TRUE]

\* get_climate_data whose except clause names the transport errors only, so
\* that an unparsable payload's error reaches the caller.
get_climate_data_narrow_except(c, lat, lon, days, today, net, rnd, id) ==
    LET key == cache_key(lat, lon, days)
    IN  IF key \in DOMAIN c
        THEN [cache |-> c, ret |-> c[key], source |-> "cache",
              raised |-> FALSE, requested |-> FALSE]
        ELSE IF net.kind = "ok"
        THEN LET data == [id |-> id, body |-> net.json]
             IN  [cache |-> [k \in DOMAIN c \cup {key} |->
                                IF k = key THEN data ELSE c[k]],
                  ret |-> data, source |-> "live",
                  raised |-> FALSE, requested |-> TRUE]
        ELSE IF net.kind = "bad_json"
        THEN [cache |-> c, ret |-> None, source |-> "raise",
              raised |-> TRUE, requested |-> TRUE]
        ELSE [cache |-> c,
              ret |-> [id |-> id, body |-> _get_sample_data(days, today, rnd)],
              source |-> "fallback", raised |-> FALSE, requested |-> TRUE]

\* NASADataFetcher.get_climate_data on a fetcher whose cache is c.  net is how
\* the live request ends if it is issued, rnd the random draws of the fallback,
\* id the identity of the object a miss creates.  Gives the cache afterwards,
\* the returned object, whether an exception reached the caller and whether a
\* request was issued.
get_climate_data(c, lat, lon, days, today, net, rnd, id) ==
    LET key == cache_key(lat, lon, days)
    IN  IF key \in DOMAIN c
        THEN [cache |-> c, ret |-> c[key], source |-> "cache",
              raised |-> FALSE, requested |-> FALSE]
        ELSE IF net.kind = "ok"
        THEN LET data == [id |-> id, body |-> net.json]
             IN  [cache |-> [k \in DOMAIN c \cup {key} |->
                                IF k = key THEN data ELSE c[k]],
                  ret |-> data, source |-> "live",
                  raised |-> FALSE, requested |-> TRUE]
        ELSE [cache |-> c,
              ret |-> [id |-> id, body |-> _get_sample_data(days, today, rnd)],
              source |-> "fallback", raised |-> FALSE, requested |-> TRUE]

(***************************************************************************)
(* The farming simulator.  A simulator is the record of its attributes; a  *)
(* method gives the simulator afterwards (self), what it returns (ret) and *)
(* the exception it raises, if any (error).                                *)
(***************************************************************************)
\* FarmingSimulator.__init__
FarmingSimulator(scenario_data) ==
    [scenario |-> scenario_data,
     nasa_data |-> None,
     decisions |-> [irrigation |-> 50, fertilizer |-> 50]]

\* list(params[p].values())
Values(series) == [i \in 1..Len(series) |-> series[i].value]

\* s[:n]
Prefix(s, n) == SubSeq(s, 1, Min(n, Len(s)))

\* `not self.nasa_data`: None, or an empty dict.
Falsy(data) == data = None \/ DOMAIN data.body = {}

\* analyze_conditions with the precipitation average summed over temps.
analyze_conditions_sums_temps(self) ==
    IF Falsy(self.nasa_data)
    THEN [ret |-> << >>, error |-> "none"]
    ELSE LET body == self.nasa_data.body
         IN  IF ~( /\ "properties" \in DOMAIN body
                   /\ "parameter" \in DOMAIN body.properties
                   /\ {"T2M", "PRECTOTCORR", "GWETROOT"}
                         \subseteq DOMAIN body.properties.parameter )
             THEN [ret |-> None, error |-> "KeyError"]
             ELSE LET params == body.properties.parameter
                      temps == Values(params["T2M"])
                      precip == Values(params["PRECTOTCORR"])
                      soil == Values(params["GWETROOT"])
                  IN  IF Len(temps) = 0 \/ Len(precip) = 0 \/ Len(soil) = 0
                      THEN [ret |-> None, error |-> "ZeroDivisionError"]
                      ELSE [ret |->
                              [avg_temperature |->
                                  Round(Sum(temps), Len(temps) * 100),
                               avg_precipitation |->
                                  Round(Sum(temps), Len(precip) * 10),
                               avg_soil_moisture |->
                                  Round(Sum(soil), Len(soil) * 10),
                               temp_data |-> Prefix(temps, 10),
                               precip_data |-> Prefix(precip, 10),
                               soil_data |-> Prefix(soil, 10)],
                            error |-> "none"]

\* FarmingSimulator.analyze_conditions
analyze_conditions(self) ==
    IF Falsy(self.nasa_data)
    THEN [ret |-> << >>, error |-> "none"]
    ELSE LET body == self.nasa_data.body
         IN  IF ~( /\ "properties" \in DOMAIN body
                   /\ "parameter" \in DOMAIN body.properties
                   /\ {"T2M", "PRECTOTCORR", "GWETROOT"}
                         \subseteq DOMAIN body.properties.parameter )
             THEN [ret |-> None, error |-> "KeyError"]
             ELSE LET params == body.properties.parameter
                      temps == Values(params["T2M"])
                      precip == Values(params["PRECTOTCORR"])
                      soil == Values(params["GWETROOT"])
                  IN  IF Len(temps) = 0 \/ Len(precip) = 0 \/ Len(soil) = 0
                      THEN [ret |-> None, error |-> "ZeroDivisionError"]
                      ELSE [ret |->
                              [avg_temperature |->
                                  Round(Sum(temps), Len(temps) * 100),
                               avg_precipitation |->
                                  Round(Sum(precip), Len(precip) * 10),
                               avg_soil_moisture |->
                                  Round(Sum(soil), Len(soil) * 10),
                               temp_data |-> Prefix(temps, 10),
                               precip_data |-> Prefix(precip, 10),
                               soil_data |-> Prefix(soil, 10)],
                            error |-> "none"]

LowSoilMoisture ==
    "Low soil moisture detected - consider increasing irrigation"
LowRainfall == "Low rainfall period - crops may need supplemental water"
HighTemperatures == "High temperatures - increase irrigation to compensate"
HighMoisture ==
    "High moisture levels - reduce irrigation to prevent overwatering"
ConditionsOptimal == "Conditions are optimal for current crop"

\* recs.append(text) if cond
AppendIf(list, cond, text) == IF cond THEN Append(list, text) ELSE list

\* generate_recommendations with the four rules as one if/elif chain.
generate_recommendations_elif(a) ==
    LET soil == a.avg_soil_moisture
        precip == a.avg_precipitation
        temp == a.avg_temperature
    IN  IF soil < 30 THEN <<LowSoilMoisture>>
        ELSE IF precip < 200 THEN <<LowRainfall>>
        ELSE IF temp > 300 THEN <<HighTemperatures>>
        ELSE IF soil > 50 /\ precip > 500 THEN <<HighMoisture>>
        ELSE <<ConditionsOptimal>>

\* FarmingSimulator.generate_recommendations
generate_recommendations(a) ==
    LET soil == a.avg_soil_moisture
        precip == a.avg_precipitation
        temp == a.avg_temperature
        r1 == AppendIf(<< >>, soil < 30, LowSoilMoisture)
        r2 == AppendIf(r1, precip < 200, LowRainfall)
        r3 == AppendIf(r2, temp > 300, HighTemperatures)
        r4 == AppendIf(r3, soil > 50 /\ precip > 500, HighMoisture)
    IN  AppendIf(r4, r4 = << >>, ConditionsOptimal)

\* The irrigation scoring with the dry and wet limits taken inclusively.
IrrigationScore_inclusive(soil, irrigation, optimal) ==
    IF soil <= 30
    THEN (IF irrigation >= 50 THEN 30 ELSE -60)
    ELSE IF soil >= 50
    THEN (IF irrigation <= 30 THEN 40 ELSE -50)
    ELSE Max(0, 40 - Abs(irrigation - optimal.irrigation))

\* "Irrigation scoring": what is added to base_yield, in halves.
IrrigationScore(soil, irrigation, optimal) ==
    IF soil < 30
    THEN (IF irrigation >= 50 THEN 30 ELSE -60)
    ELSE IF soil > 50
    THEN (IF irrigation <= 30 THEN 40 ELSE -50)
    ELSE Max(0, 40 - Abs(irrigation - optimal.irrigation))

\* The fertilizer scoring testing the absolute levels before the deviation.
FertilizerScore_levels_first(fertilizer, optimal) ==
    LET fert_diff == Abs(fertilizer - optimal.fertilizer)
    IN  IF fertilizer > 80 THEN -30
        ELSE IF fertilizer < 20 THEN -40
        ELSE IF fert_diff <= 10 THEN 50
        ELSE IF fert_diff <= 20 THEN 20
        ELSE 0

\* "Fertilizer scoring": what is added to base_yield, in halves.
FertilizerScore(fertilizer, optimal) ==
    LET fert_diff == Abs(fertilizer - optimal.fertilizer)
    IN  IF fert_diff <= 10 THEN 50
        ELSE IF fert_diff <= 20 THEN 20
        ELSE IF fertilizer > 80 THEN -30
        ELSE IF fertilizer < 20 THEN -40
        ELSE 0

\* FarmingSimulator._generate_feedback
_generate_feedback(yield_pct, a, irr, fert) ==
    [headline |->
        IF yield_pct > 240
        THEN "Outstanding! You mastered NASA data interpretation!"
        ELSE IF yield_pct > 200
        THEN "Excellent work! Your decisions were well-informed."
        ELSE IF yield_pct > 170
        THEN "Good job! Some room for optimization."
        ELSE "Review the NASA data more carefully next time.",
     avg_temperature |-> a.avg_temperature,
     avg_soil_moisture |-> a.avg_soil_moisture,
     avg_precipitation |-> a.avg_precipitation,
     irrigation |-> irr,
     fertilizer |-> fert]

\* calculate_yield returning the water usage under 'yield'.
calculate_yield_mixed_fields(self, irrigation, fertilizer) ==
    LET a == analyze_conditions(self)
    IN  IF a.error # "none" \/ DOMAIN a.ret = {}
        THEN [self |-> self, ret |-> None, error |-> "KeyError"]
        ELSE LET base_yield ==
                    200 + IrrigationScore(a.ret.avg_soil_moisture, irrigation,
                                          self.scenario.optimal)
                        + FertilizerScore(fertilizer, self.scenario.optimal)
                 yield_pct == Max(0, Min(300, base_yield))
             IN  [self |-> self,
                  ret |-> [yield |-> 2 * irrigation * 10,
                           water_usage |-> irrigation * 10,
                           fert_cost |-> fertilizer * 5,
                           feedback |-> _generate_feedback(
                               yield_pct, a.ret, irrigation, fertilizer)],
                  error |-> "none"]

\* calculate_yield remembering the decision it scored in self.decisions.
calculate_yield_stores_decision(self, irrigation, fertilizer) ==
    LET a == analyze_conditions(self)
    IN  IF a.error # "none" \/ DOMAIN a.ret = {}
        THEN [self |-> self, ret |-> None, error |-> "KeyError"]
        ELSE LET base_yield ==
                    200 + IrrigationScore(a.ret.avg_soil_moisture, irrigation,
                                          self.scenario.optimal)
                        + FertilizerScore(fertilizer, self.scenario.optimal)
                 yield_pct == Max(0, Min(300, base_yield))
             IN  [self |-> [self EXCEPT !.decisions =
                               [irrigation |-> irrigation,
                                fertilizer |-> fertilizer]],
                  ret |-> [yield |-> yield_pct,
                           water_usage |-> irrigation * 10,
                           fert_cost |-> fertilizer * 5,
                           feedback |-> _generate_feedback(
                               yield_pct, a.ret, irrigation, fertilizer)],
                  error |-> "none"]

\* FarmingSimulator.calculate_yield.  An analysis that raised, or the empty
\* analysis of a simulator without data, ends the call in an exception.
calculate_yield(self, irrigation, fertilizer) ==
    LET a == analyze_conditions(self)
    IN  IF a.error # "none"
        THEN [self |-> self, ret |-> None, error |-> a.error]
        ELSE IF DOMAIN a.ret = {}
        THEN [self |-> self, ret |-> None, error |-> "KeyError"]
        ELSE LET base_yield ==
                    200 + IrrigationScore(a.ret.avg_soil_moisture, irrigation,
                                          self.scenario.optimal)
                        + FertilizerScore(fertilizer, self.scenario.optimal)
                 yield_pct == Max(0, Min(300, base_yield))
             IN  [self |-> self,
                  ret |-> [yield |-> yield_pct,
                           water_usage |-> irrigation * 10,
                           fert_cost |-> fertilizer * 5,
                           feedback |-> _generate_feedback(
                               yield_pct, a.ret, irrigation, fertilizer)],
                  error |-> "none"]

(***************************************************************************)
(* The fetcher on its own: get_climate_data called for two of the scenario *)
(* locations and any days in 1..MaxDays, the service reporting a dry or a  *)
(* wet spell.                                                              *)
(***************************************************************************)
FetchLocations ==
    {SCENARIOS.wheat_kansas.location, SCENARIOS.corn_iowa.location}

FetchProfiles == {AridProfile, HumidProfile}

NoCall == [key |-> "", days |-> 0, at |-> 0, live |-> "none",
           received |-> None, ret |-> None, source |-> "none",
           raised |-> FALSE, requested |-> FALSE]

\* The record of one call: r is what get_climate_data gave.
CallRecord(lat, lon, days, today, net, r) ==
    [key |-> cache_key(lat, lon, days), days |-> days, at |-> today,
     live |-> IF r.requested THEN net.kind ELSE "none",
     received |-> IF r.requested THEN net.json ELSE None,
     ret |-> r.ret, source |-> r.source, raised |-> r.raised,
     requested |-> r.requested]

SessionInit ==
    /\ game_state = "welcome"
    /\ current_scenario = "wheat_kansas"
    /\ game = None
    /\ results = None
    /\ show_dashboard = None
    /\ dashboard_file = FALSE
    /\ decision = None
    /\ observed = None

FetcherInit ==
    /\ cache = << >>
    /\ requests = 0
    /\ next_id = 1
    /\ now = 0
    /\ last_call = NoCall

RecsInit ==
    /\ analysis = None
    /\ recs = None
    /\ analyzed = None

\* Random numbers are drawn only by the fallback, after a failure.
NoDraws == [p \in PARAMETERS |-> << >>]

DrawsFor(net, days) ==
    IF net.kind \in FAILURES THEN UniformDraws(days) ELSE {NoDraws}

\* One get_climate_data(lat, lon, days) call.
GetClimateData ==
    \E loc \in FetchLocations, days \in 1..MaxDays :
    \E net \in NetOutcomes(now - days, now, FetchProfiles) :
    \E rnd \in DrawsFor(net, days) :
        LET r == get_climate_data(cache, loc.lat, loc.lon, days, now, net,
                                  rnd, next_id)
        IN  /\ r.requested => requests < MaxRequests
            /\ cache' = r.cache
            /\ requests' = IF r.requested THEN requests + 1 ELSE requests
            /\ next_id' = IF r.source = "cache" THEN next_id ELSE next_id + 1
            /\ last_call' = CallRecord(loc.lat, loc.lon, days, now, net, r)
            /\ UNCHANGED <<now, session_vars, recs_vars>>

InitFetch == FetcherInit /\ SessionInit /\ RecsInit
NextFetch == GetClimateData
SpecFetch == InitFetch /\ [][NextFetch]_vars

(***************************************************************************)
(* The session: the buttons of the page, each with its handler up to       *)
(* st.rerun().                                                             *)
(***************************************************************************)
\* FarmingSimulator.load_nasa_data: the simulator afterwards and what the
\* fetcher did.
load_nasa_data(self, c, today, net, rnd, id) ==
    LET loc == self.scenario.location
        r == get_climate_data(c, loc.lat, loc.lon, DefaultDays, today, net,
                              rnd, id)
    IN  [self |-> [self EXCEPT !.nasa_data = r.ret], fetch |-> r]

\* The playing page runs down to the Harvest button: the analysis raises
\* nothing, has its averages, and the charts get their ten values.
PlayingPageRenders(g) ==
    LET a == analyze_conditions(g)
    IN  /\ a.error = "none"
        /\ DOMAIN a.ret # {}
        /\ Len(a.ret.temp_data) = 10
        /\ Len(a.ret.precip_data) = 10

\* Slider positions a player submits.
DecisionLevels == {10, 50, 90}

\* The state after FarmingSimulator(SCENARIOS[choice]) and load_nasa_data.
LoadGame(choice, net, rnd) ==
    LET l == load_nasa_data(FarmingSimulator(SCENARIOS[choice]), cache, now,
                            net, rnd, next_id)
        r == l.fetch
    IN  /\ r.requested => requests < MaxRequests
        /\ current_scenario' = choice
        /\ game' = l.self
        /\ cache' = r.cache
        /\ requests' = IF r.requested THEN requests + 1 ELSE requests
        /\ next_id' = IF r.source = "cache" THEN next_id ELSE next_id + 1
        /\ last_call' = CallRecord(SCENARIOS[choice].location.lat,
                                   SCENARIOS[choice].location.lon,
                                   DefaultDays, now, net, r)
        /\ observed' = None

\* "Start Farming"
StartFarming ==
    /\ game_state = "welcome"
    /\ \E choice \in DOMAIN SCENARIOS :
       \E net \in NetOutcomes(now - DefaultDays, now, FetchProfiles) :
       \E rnd \in DrawsFor(net, DefaultDays) :
          LoadGame(choice, net, rnd)
    /\ game_state' = "playing"
    /\ UNCHANGED <<now, results, show_dashboard, dashboard_file, decision,
                   recs_vars>>

\* "Multiplayer Game"
Multiplayer ==
    /\ game_state = "welcome"
    /\ \E choice \in DOMAIN SCENARIOS :
       \E net \in NetOutcomes(now - DefaultDays, now, FetchProfiles) :
       \E rnd \in DrawsFor(net, DefaultDays) :
          LoadGame(choice, net, rnd)
    /\ dashboard_file' = TRUE
    /\ game_state' = "multi-playing"
    /\ show_dashboard' = TRUE
    /\ UNCHANGED <<now, results, decision, recs_vars>>

\* "Back to Main Menu" leading to the single-player page.
BackToMainMenu_to_playing ==
    /\ game_state = "multi-playing"
    /\ show_dashboard = TRUE
    /\ game_state' = "playing"
    /\ UNCHANGED <<fetcher_vars, game, results, current_scenario,
                   show_dashboard, dashboard_file, decision, observed,
                   recs_vars>>

\* "Back to Main Menu"
BackToMainMenu ==
    /\ game_state = "multi-playing"
    /\ show_dashboard = TRUE
    /\ game_state' = "welcome"
    /\ UNCHANGED <<fetcher_vars, game, results, current_scenario,
                   show_dashboard, dashboard_file, decision, observed,
                   recs_vars>>

\* "Harvest & See Results".  When observing, the call may be put on record
\* in place of the one recorded before.
HarvestHandler(observing) ==
    /\ game_state = "playing"
    /\ PlayingPageRenders(game)
    /\ \E irrigation \in DecisionLevels, fertilizer \in DecisionLevels :
          LET r == calculate_yield(game, irrigation, fertilizer)
              d == [irrigation |-> irrigation, fertilizer |-> fertilizer]
          IN  /\ r.error = "none"
              /\ game' = r.self
              /\ results' = r.ret
              /\ decision' = d
              /\ observed' \in
                    IF observing
                    THEN {observed, [decision |-> d, outcome |-> r.ret]}
                    ELSE {observed}
    /\ game_state' = "results"
    /\ UNCHANGED <<fetcher_vars, current_scenario, show_dashboard,
                   dashboard_file, recs_vars>>

Harvest == HarvestHandler(FALSE)

\* "Try Again" starting over with a new simulator for the scenario.
TryAgain_new_game ==
    /\ game_state = "results"
    /\ game_state' = "playing"
    /\ game' = FarmingSimulator(SCENARIOS[current_scenario])
    /\ results' = None
    /\ decision' = None
    /\ UNCHANGED <<fetcher_vars, current_scenario, show_dashboard,
                   dashboard_file, observed, recs_vars>>

\* "Try Again"
TryAgain ==
    /\ game_state = "results"
    /\ game_state' = "playing"
    /\ results' = None
    /\ decision' = None
    /\ UNCHANGED <<fetcher_vars, game, current_scenario, show_dashboard,
                   dashboard_file, observed, recs_vars>>

\* "New Scenario" leading to the playing page.
NewScenario_to_playing ==
    /\ game_state = "results"
    /\ game_state' = "playing"
    /\ game' = None
    /\ results' = None
    /\ decision' = None
    /\ observed' = None
    /\ UNCHANGED <<fetcher_vars, current_scenario, show_dashboard,
                   dashboard_file, recs_vars>>

\* "New Scenario"
NewScenario ==
    /\ game_state = "results"
    /\ game_state' = "welcome"
    /\ game' = None
    /\ results' = None
    /\ decision' = None
    /\ observed' = None
    /\ UNCHANGED <<fetcher_vars, current_scenario, show_dashboard,
                   dashboard_file, recs_vars>>

\* "Restart Game", in the sidebar of every page.
Restart ==
    /\ game_state' = "welcome"
    /\ game' = None
    /\ results' = None
    /\ decision' = None
    /\ observed' = None
    /\ UNCHANGED <<fetcher_vars, current_scenario, show_dashboard,
                   dashboard_file, recs_vars>>

Init == FetcherInit /\ SessionInit /\ RecsInit

Next ==
    \/ StartFarming
    \/ Multiplayer
    \/ BackToMainMenu
    \/ Harvest
    \/ TryAgain
    \/ NewScenario
    \/ Restart

Spec == Init /\ [][Next]_vars

(***************************************************************************)
(* Scoring again and again: from the playing page of a game just loaded,   *)
(* Harvest and Try Again alternate, and one earlier call is kept on record *)
(* to compare later calls with.                                            *)
(***************************************************************************)
InitScore ==
    /\ now = 0
    /\ \E choice \in DOMAIN SCENARIOS :
       \E net \in NetOutcomes(now - DefaultDays, now, ClimateProfiles) :
       \E rnd \in DrawsFor(net, DefaultDays) :
          LET l == load_nasa_data(FarmingSimulator(SCENARIOS[choice]),
                                  << >>, now, net, rnd, 1)
          IN  /\ current_scenario = choice
              /\ game = l.self
              /\ cache = l.fetch.cache
              /\ last_call = CallRecord(SCENARIOS[choice].location.lat,
                                        SCENARIOS[choice].location.lon,
                                        DefaultDays, now, net, l.fetch)
    /\ requests = 1
    /\ next_id = 2
    /\ game_state = "playing"
    /\ results = None
    /\ show_dashboard = None
    /\ dashboard_file = FALSE
    /\ decision = None
    /\ observed = None
    /\ RecsInit

ObservedHarvest == HarvestHandler(TRUE)

NextScore == ObservedHarvest \/ TryAgain
SpecScore == InitScore /\ [][NextScore]_vars

(***************************************************************************)
(* calculate_yield on its own: a simulator for any of a set of optimal     *)
(* pairs, holding soil moisture data across the whole range, scores every  *)
(* decision the sliders allow.                                             *)
(***************************************************************************)
\* The sliders' min_value and max_value.
SliderMin == 0
SliderMax == 100

\* The optimal pairs of the scenario table, and pairs at and off the ends.
OptimalPairs ==
    { SCENARIOS[s].optimal : s \in DOMAIN SCENARIOS }
    \cup { [irrigation |-> 0, fertilizer |-> 60],
           [irrigation |-> 100, fertilizer |-> 0],
           [irrigation |-> 20, fertilizer |-> 100] }

\* GWETROOT series, by their rounded average: 0, 0.20, 0.29, 0.30 (from
\* 0.296 and from 0.3), 0.35, 0.50 (from 0.5 and from 0.5005), 0.51, 1.
SoilSamples ==
    { <<0>>, <<200>>, <<294>>, <<296>>, <<300>>, <<300, 400>>, <<500>>,
      <<600, 401>>, <<506>>, <<1000, 1000>> }

\* Climate data with the given soil moisture values, oldest first.
SoilData(values) ==
    LET series(p) ==
            [i \in 1..Len(values) |->
                [date |-> i,
                 value |-> CASE p = "T2M" -> 21500
                             [] p = "PRECTOTCORR" -> 3250
                             [] p = "GWETROOT" -> values[i]
                             [] OTHER -> 6000]]
    IN  [id |-> 0,
         body |-> [properties |->
                     [parameter |-> [p \in PARAMETERS |-> series(p)]]]]

InitYield ==
    /\ FetcherInit
    /\ RecsInit
    /\ game_state = "playing"
    /\ current_scenario = "wheat_kansas"
    /\ \E optimal \in OptimalPairs, values \in SoilSamples :
          game = [FarmingSimulator(
                      [SCENARIOS.wheat_kansas EXCEPT !.optimal = optimal])
                  EXCEPT !.nasa_data = SoilData(values)]
    /\ results = None
    /\ show_dashboard = None
    /\ dashboard_file = FALSE
    /\ decision = None
    /\ observed = None

\* results = game.calculate_yield(irrigation, fertilizer), once, for a
\* decision out of the given levels.
ScoreOver(levels) ==
    /\ game_state = "playing"
    /\ \E irrigation \in levels, fertilizer \in levels :
          LET r == calculate_yield(game, irrigation, fertilizer)
          IN  /\ r.error = "none"
              /\ results' = r.ret
              /\ game' = r.self
              /\ decision' = [irrigation |-> irrigation,
                              fertilizer |-> fertilizer]
    /\ game_state' = "results"
    /\ UNCHANGED <<fetcher_vars, current_scenario, show_dashboard,
                   dashboard_file, observed, recs_vars>>

Score == ScoreOver(SliderMin..SliderMax)

SpecYield == InitYield /\ [][Score]_vars

(***************************************************************************)
(* calculate_yield called with any integers, not only those the sliders    *)
(* allow.                                                                  *)
(***************************************************************************)
\* Decisions within, just beyond and far beyond the sliders' range.
WideLevels ==
    ((SliderMin - 5)..(SliderMax + 5)) \cup {-1000, -100, 200, 1000}

\* base_yield as it stands before the clamp, in halves.
BaseYield(self, irrigation, fertilizer) ==
    200 + IrrigationScore(analyze_conditions(self).ret.avg_soil_moisture,
                          irrigation, self.scenario.optimal)
        + FertilizerScore(fertilizer, self.scenario.optimal)

ScoreWide == ScoreOver(WideLevels)

SpecWide == InitYield /\ [][ScoreWide]_vars

(***************************************************************************)
(* generate_recommendations on its own, for averages on both sides of      *)
(* every threshold.                                                        *)
(***************************************************************************)
SoilAverages == {0, 29, 30, 31, 50, 51, 100}
PrecipAverages == {0, 199, 200, 201, 500, 501, 1200}
TempAverages == {-50, 215, 300, 301, 400}

InitRecs ==
    /\ FetcherInit
    /\ SessionInit
    /\ analysis \in [avg_temperature : TempAverages,
                     avg_precipitation : PrecipAverages,
                     avg_soil_moisture : SoilAverages]
    /\ recs = None
    /\ analyzed = None

\* recs = game.generate_recommendations(analysis)
GenerateRecommendations ==
    /\ recs' = [list |-> generate_recommendations(analysis)]
    /\ UNCHANGED <<fetcher_vars, session_vars, analysis, analyzed>>

SpecRecs == InitRecs /\ [][GenerateRecommendations]_vars

(***************************************************************************)
(* analyze_conditions on its own: a simulator just constructed is given    *)
(* the data of a window of any length, live or fallback, and is analysed   *)
(* before or after that.                                                   *)
(***************************************************************************)
\* Window lengths: none, the short ones, and the default.
AnalyzeWindows == (0..MaxDays) \cup {DefaultDays}

InitAnalyze ==
    /\ FetcherInit
    /\ RecsInit
    /\ game_state = "welcome"
    /\ \E choice \in DOMAIN SCENARIOS :
          /\ current_scenario = choice
          /\ game = FarmingSimulator(SCENARIOS[choice])
    /\ results = None
    /\ show_dashboard = None
    /\ dashboard_file = FALSE
    /\ decision = None
    /\ observed = None

\* self.nasa_data = fetcher.get_climate_data(lat, lon, days)
LoadWindow ==
    /\ game.nasa_data = None
    /\ \E days \in AnalyzeWindows :
       \E net \in NetOutcomes(now - days, now, ClimateProfiles) :
       \E rnd \in DrawsFor(net, days) :
          LET loc == game.scenario.location
              r == get_climate_data(cache, loc.lat, loc.lon, days, now, net,
                                    rnd, next_id)
          IN  /\ game' = [game EXCEPT !.nasa_data = r.ret]
              /\ cache' = r.cache
              /\ requests' = IF r.requested THEN requests + 1 ELSE requests
              /\ next_id' = IF r.source = "cache" THEN next_id
                            ELSE next_id + 1
              /\ last_call' = CallRecord(loc.lat, loc.lon, days, now, net, r)
    /\ UNCHANGED <<now, game_state, results, current_scenario, show_dashboard,
                   dashboard_file, decision, observed, recs_vars>>

\* analysis = game.analyze_conditions(), put on record with the data it saw.
AnalyzeConditions ==
    /\ analyzed' = [of |-> game.nasa_data] @@ analyze_conditions(game)
    /\ UNCHANGED <<fetcher_vars, session_vars, analysis, recs>>

NextAnalyze == LoadWindow \/ AnalyzeConditions
SpecAnalyze == InitAnalyze /\ [][NextAnalyze]_vars

(***************************************************************************)
(* The fallback generator on its own: a simulator just constructed is      *)
(* given _get_sample_data(days) for any days in 1..MaxSampleDays and any   *)
(* of a set of draws, and the playing page analyses it.                    *)
(***************************************************************************)
\* np.random.random() at the two ends of [0, 1), in thousandths.
SampleLevels == {0, 999}

\* One draw per parameter and day index: per parameter one level on the even
\* and one on the odd day indices.
PatternDraws(days) ==
    { [p \in PARAMETERS |->
          [i \in 0..(days - 1) |-> IF i % 2 = 0 THEN even[p] ELSE odd[p]]] :
      even \in [PARAMETERS -> SampleLevels],
      odd \in [PARAMETERS -> SampleLevels] }

\* self.nasa_data = fetcher._get_sample_data(days)
GetSampleData ==
    /\ game.nasa_data = None
    /\ \E days \in 1..MaxSampleDays :
       \E rnd \in PatternDraws(days) :
          LET data == [id |-> next_id,
                       body |-> _get_sample_data(days, now, rnd)]
          IN  /\ game' = [game EXCEPT !.nasa_data = data]
              /\ last_call' = [NoCall EXCEPT !.days = days, !.at = now,
                                             !.ret = data,
                                             !.source = "fallback"]
    /\ next_id' = next_id + 1
    /\ UNCHANGED <<cache, requests, now, game_state, results,
                   current_scenario, show_dashboard, dashboard_file, decision,
                   observed, recs_vars>>

\* The playing page's analysis = game.analyze_conditions() and
\* recs = game.generate_recommendations(analysis).
ShowConditions ==
    /\ game.nasa_data # None
    /\ LET a == analyze_conditions(game)
       IN  /\ a.error = "none"
           /\ analyzed' = [of |-> game.nasa_data] @@ a
           /\ analysis' = a.ret
           /\ recs' = [list |-> generate_recommendations(a.ret)]
    /\ UNCHANGED <<fetcher_vars, session_vars>>

NextSample == GetSampleData \/ ShowConditions
SpecSample == InitAnalyze /\ [][NextSample]_vars

(***************************************************************************)
(* Claims about the scoring and the recommendations.                       *)
(***************************************************************************)
\* The rounded average soil moisture the scored simulator sees.
ScoredMoisture == analyze_conditions(game).ret.avg_soil_moisture

\* C1: for every irrigation and fertilizer in 0..100, every optimal pair and
\* every average soil moisture in [0, 1], the returned yield is in [0, 150].
C1_YieldInRange ==
    results # None => (results.yield >= 0 /\ results.yield <= 2 * 150)

\* The adversarial input of the spec was scored: irrigation 0, fertilizer 100
\* on wet soil.
C1_Witness ==
    /\ results # None
    /\ decision = [irrigation |-> 0, fertilizer |-> 100]
    /\ ScoredMoisture > 50
    /\ results.yield <= 2 * 150

\* The irrigation term as the claim states it, in halves.
C2_Term(moisture, irrigation, optimal_irrigation) ==
    IF moisture < 30 THEN (IF irrigation >= 50 THEN 2 * 15 ELSE -(2 * 30))
    ELSE IF moisture > 50 THEN (IF irrigation <= 30 THEN 2 * 20 ELSE -(2 * 25))
    ELSE Max(0, 2 * 20 - Abs(irrigation - optimal_irrigation))

\* C2: the yield is 100 plus the fertilizer term plus an irrigation term chosen
\* by the rounded moisture with strict comparisons (0.30 and 0.50 are normal);
\* optimal {45, 50}, moisture 0.35, decision {45, 50} gives 145.
C2_IrrigationTerm ==
    results # None =>
        /\ results.yield =
              Max(0, Min(2 * 150,
                  2 * 100
                  + C2_Term(ScoredMoisture, decision.irrigation,
                            game.scenario.optimal.irrigation)
                  + FertilizerScore(decision.fertilizer,
                                    game.scenario.optimal)))
        /\ ( /\ game.scenario.optimal = [irrigation |-> 45, fertilizer |-> 50]
             /\ ScoredMoisture = 35
             /\ decision = [irrigation |-> 45, fertilizer |-> 50] )
           => results.yield = 2 * 145

\* Moisture exactly 0.30 was scored off the optimum: the normal branch's decay.
C2_Witness ==
    /\ results # None
    /\ ScoredMoisture = 30
    /\ decision.irrigation = 60
    /\ game.scenario.optimal = [irrigation |-> 45, fertilizer |-> 50]
    /\ decision.fertilizer = 50
    /\ results.yield = 2 * 100 + 25 + 2 * 25

\* The fertilizer term as the claim states it, in halves.
C3_Term(fertilizer, optimal_fertilizer) ==
    LET d == Abs(fertilizer - optimal_fertilizer)
    IN  IF d <= 10 THEN 2 * 25
        ELSE IF d <= 20 THEN 2 * 10
        ELSE IF fertilizer > 80 THEN -(2 * 15)
        ELSE IF fertilizer < 20 THEN -(2 * 20)
        ELSE 0

\* C3: the yield is 100 plus the irrigation term plus a fertilizer term that
\* depends on the fertilizer and its optimum alone; moisture 0.20, irrigation
\* 10, fertilizer 90 at a deviation of 30 gives 55.
C3_FertilizerTerm ==
    results # None =>
        /\ results.yield =
              Max(0, Min(2 * 150,
                  2 * 100
                  + IrrigationScore(ScoredMoisture, decision.irrigation,
                                    game.scenario.optimal)
                  + C3_Term(decision.fertilizer,
                            game.scenario.optimal.fertilizer)))
        /\ ( /\ ScoredMoisture = 20
             /\ decision = [irrigation |-> 10, fertilizer |-> 90]
             /\ game.scenario.optimal.fertilizer = 60 )
           => results.yield = 2 * 55

\* The dry example was scored.
C3_Witness ==
    /\ results # None
    /\ ScoredMoisture = 20
    /\ decision = [irrigation |-> 10, fertilizer |-> 90]
    /\ game.scenario.optimal.fertilizer = 60
    /\ results.yield = 2 * 55

\* The warnings of the rules that hold, in the order of the rules.
C5_Warnings(a) ==
    LET w1 == IF a.avg_soil_moisture < 30
              THEN <<LowSoilMoisture>> ELSE << >>
        w2 == IF a.avg_precipitation < 200 THEN <<LowRainfall>> ELSE << >>
        w3 == IF a.avg_temperature > 300
              THEN <<HighTemperatures>> ELSE << >>
        w4 == IF a.avg_soil_moisture > 50 /\ a.avg_precipitation > 500
              THEN <<HighMoisture>> ELSE << >>
    IN  w1 \o w2 \o w3 \o w4

\* C5: the list holds the warning of every rule that holds, in rule order;
\* the 'conditions optimal' message is there exactly when no rule holds, and
\* then alone; the list is never empty.
C5_Recommendations ==
    recs # None =>
        /\ Len(recs.list) >= 1
        /\ recs.list = IF C5_Warnings(analysis) = << >>
                       THEN <<ConditionsOptimal>>
                       ELSE C5_Warnings(analysis)
        /\ (\E i \in 1..Len(recs.list) : recs.list[i] = ConditionsOptimal)
              <=> C5_Warnings(analysis) = << >>

\* Three rules fired at once, in order.
C5_Witness ==
    /\ recs # None
    /\ recs.list = <<LowSoilMoisture, LowRainfall, HighTemperatures>>

\* A step in which the Harvest handler called calculate_yield.
HarvestStep == game_state = "playing" /\ game_state' = "results"

\* C4: any two calculate_yield calls on the same simulator with the same
\* irrigation and fertilizer return the same outcome, whatever calls come
\* between them; and no call changes the simulator (scenario, nasa_data,
\* decisions) or the fetcher (cache, requests issued).
C4_DeterministicNoEffects ==
    /\ []((results # None /\ observed # None /\ observed.decision = decision)
            => observed.outcome = results)
    /\ [][HarvestStep =>
            /\ game' = game
            /\ cache' = cache
            /\ requests' = requests
            /\ next_id' = next_id]_vars

\* A call was made with the decision of a call on record, on a game whose
\* data is the object in the fetcher's cache.
C4_Witness ==
    /\ results # None
    /\ observed # None
    /\ observed.outcome = results
    /\ observed.decision = [irrigation |-> 10, fertilizer |-> 90]
    /\ decision = [irrigation |-> 10, fertilizer |-> 90]
    /\ game.decisions = [irrigation |-> 50, fertilizer |-> 50]
    /\ last_call.key \in DOMAIN cache
    /\ game.nasa_data = cache[last_call.key]

(***************************************************************************)
(* Claims about the fetcher, checked under SpecFetch.                      *)
(***************************************************************************)
\* A step that is a get_climate_data call with an observable effect.
CallStep ==
    last_call' # last_call \/ requests' # requests \/ next_id' # next_id

\* The payload has the nested properties -> parameter -> four codes shape.
Conforms(json) ==
    /\ "properties" \in DOMAIN json
    /\ "parameter" \in DOMAIN json.properties
    /\ PARAMETERS \subseteq DOMAIN json.properties.parameter

\* The series has exactly n entries, on n distinct consecutive days.
WindowOf(series, n) ==
    /\ Len(series) = n
    /\ \A i, j \in 1..Len(series) :
          i # j => series[i].date # series[j].date
    /\ \A i \in 1..(Len(series) - 1) :
          series[i + 1].date = series[i].date + 1

\* C6: once a live request for a key has succeeded, its object is in the cache
\* under that key; a cache entry is never removed or replaced; and every call
\* for a cached key returns that very object and issues no network request.
C6_CachedAfterLive ==
    /\ [](last_call.source = "live" =>
            /\ last_call.key \in DOMAIN cache
            /\ cache[last_call.key] = last_call.ret)
    /\ [][\A k \in DOMAIN cache :
            /\ k \in DOMAIN cache'
            /\ cache'[k] = cache[k]
            /\ (CallStep /\ last_call'.key = k) =>
                  /\ last_call'.ret = cache[k]
                  /\ ~last_call'.requested
                  /\ requests' = requests]_vars

\* A later call was served the object of an earlier live call.
C6_Witness ==
    /\ last_call.source = "cache"
    /\ last_call.key \in DOMAIN cache
    /\ last_call.ret = cache[last_call.key]
    /\ last_call.ret.id < next_id
    /\ requests >= 1

\* C7: a call that ends in the fallback generator leaves the cache as it was,
\* without an entry for its key; the cache changes only in a call whose live
\* request succeeded; and every call for a key that is not cached issues a
\* live request.
C7_FallbackNotCached ==
    [][CallStep =>
        /\ last_call'.source = "fallback" =>
              (cache' = cache /\ last_call'.key \notin DOMAIN cache')
        /\ cache' # cache =>
              (last_call'.source = "live" /\ last_call'.live = "ok")
        /\ last_call'.key \notin DOMAIN cache =>
              (last_call'.requested /\ requests' = requests + 1)]_vars

\* Two requests were issued, the last call ended in the fallback and nothing
\* is cached: the call after a fallback went to the live source again.
C7_Witness ==
    /\ last_call.source = "fallback"
    /\ requests >= 2
    /\ DOMAIN cache = {}

\* C8: however the live request fails, the call raises nothing and returns
\* what the fallback generator gives for the requested number of days.
C8_FailureGivesFallback ==
    last_call.live \in FAILURES =>
        /\ ~last_call.raised
        /\ last_call.source = "fallback"
        /\ \E rnd \in UniformDraws(last_call.days) :
              last_call.ret.body =
                  _get_sample_data(last_call.days, last_call.at, rnd)

\* A response that could not be parsed was answered with fallback data.
C8_Witness ==
    /\ last_call.live = "bad_json"
    /\ last_call.source = "fallback"
    /\ ~last_call.raised

\* C9: a successful response whose JSON does not have the nested shape is
\* treated as a failure: the call returns fallback data and the cache holds
\* no payload of a deviating shape.
C9_DeviatingIsFailure ==
    (last_call.live = "ok" /\ ~Conforms(last_call.received)) =>
        /\ last_call.source = "fallback"
        /\ \A k \in DOMAIN cache : Conforms(cache[k].body)

\* C10: every result of the expected shape, live or fallback or served from
\* the cache, has for each parameter exactly `days` entries on distinct
\* consecutive dates.
C10_ExactlyDaysEntries ==
    (last_call.source # "none" /\ Conforms(last_call.ret.body)) =>
        \A p \in PARAMETERS :
            WindowOf(last_call.ret.body.properties.parameter[p],
                     last_call.days)

(***************************************************************************)
(* Claims about the analysis, checked under SpecAnalyze.                   *)
(***************************************************************************)
\* The three series analyze_conditions reads.
AnalyzedSeries == {"T2M", "PRECTOTCORR", "GWETROOT"}

\* The raw values of one series of a data object, oldest first.
RawSeries(data, p) == Values(data.body.properties.parameter[p])

\* Data is absent (never loaded, or empty), or one of its series is empty.
NoData(data) ==
    \/ Falsy(data)
    \/ /\ Conforms(data.body)
       /\ \E p \in AnalyzedSeries : Len(RawSeries(data, p)) = 0

\* The call returned a summary with its averages.
Analysed ==
    /\ analyzed # None
    /\ analyzed.error = "none"
    /\ DOMAIN analyzed.ret # {}

\* C11: analyze_conditions fails with a distinct 'no data' error when the
\* data is absent or empty or a series has no entries; it never returns a
\* summary without the averages and never divides by zero.
C11_NoDataIsDistinctError ==
    analyzed # None =>
        /\ NoData(analyzed.of) =>
               analyzed.error \notin {"none", "ZeroDivisionError", "KeyError"}
        /\ analyzed.error # "ZeroDivisionError"
        /\ analyzed.error = "none" =>
               {"avg_temperature", "avg_precipitation", "avg_soil_moisture"}
                   \subseteq DOMAIN analyzed.ret

\* min() and max() of a non-empty list.
SeqMin(s) == CHOOSE x \in {s[i] : i \in DOMAIN s} :
                \A y \in {s[i] : i \in DOMAIN s} : x <= y
SeqMax(s) == CHOOSE x \in {s[i] : i \in DOMAIN s} :
                \A y \in {s[i] : i \in DOMAIN s} : x >= y

\* An average of `unit` thousandths per count is within `slack` thousandths
\* of the range of the raw values.
WithinRaw(avg, unit, raw, slack) ==
    /\ avg * unit >= SeqMin(raw) - slack
    /\ avg * unit <= SeqMax(raw) + slack

\* The three averages against their raw series.
AveragesWithin(tenth_slack, hundredth_slack) ==
    /\ WithinRaw(analyzed.ret.avg_temperature, 100,
                 RawSeries(analyzed.of, "T2M"), tenth_slack)
    /\ WithinRaw(analyzed.ret.avg_precipitation, 10,
                 RawSeries(analyzed.of, "PRECTOTCORR"), hundredth_slack)
    /\ WithinRaw(analyzed.ret.avg_soil_moisture, 10,
                 RawSeries(analyzed.of, "GWETROOT"), hundredth_slack)

\* C12, as stated: each rounded average lies between the minimum and the
\* maximum of its raw series.
C12_AveragesWithinRaw ==
    Analysed /\ last_call.days >= 1 => AveragesWithin(0, 0)

\* C12, amended: each rounded average lies within half a unit of its
\* rounding precision (0.05 for the temperature, 0.005 for precipitation and
\* soil moisture) of the range between the minimum and the maximum of its raw
\* series.
C12_AveragesWithinHalfUnit ==
    Analysed /\ last_call.days >= 1 => AveragesWithin(50, 5)

\* A summary whose rounded soil moisture average is above every raw value.
C12_Witness ==
    /\ Analysed
    /\ last_call.days >= 1
    /\ analyzed.ret.avg_soil_moisture * 10
          > SeqMax(RawSeries(analyzed.of, "GWETROOT"))

\* s[-n:]
Suffix(s, n) == SubSeq(s, Len(s) - Min(n, Len(s)) + 1, Len(s))

\* C13: temp_data and precip_data are the most recent 10 values of the
\* oldest-to-newest series (the whole series when it is shorter), oldest
\* first.
C13_MostRecentTen ==
    Analysed =>
        /\ analyzed.ret.temp_data = Suffix(RawSeries(analyzed.of, "T2M"), 10)
        /\ analyzed.ret.precip_data
              = Suffix(RawSeries(analyzed.of, "PRECTOTCORR"), 10)

(***************************************************************************)
(* Claims about the session flow, checked under Spec.                      *)
(***************************************************************************)
\* The edges game_state may take.
Transitions ==
    { <<"welcome", "playing">>, <<"welcome", "multi-playing">>,
      <<"playing", "results">>, <<"results", "playing">>,
      <<"results", "welcome">>, <<"playing", "welcome">>,
      <<"multi-playing", "welcome">> }

\* One step of the session, against the edges and what each edge follows.
TransitionStep ==
    /\ game_state' # game_state => <<game_state, game_state'>> \in Transitions
    /\ game_state = "welcome" /\ game_state' = "playing" =>
          /\ game' # None
          /\ game'.nasa_data # None
          /\ game'.nasa_data = last_call'.ret
          /\ last_call'.days = DefaultDays
    /\ game_state' = "results" /\ game_state # "results" =>
          /\ game_state = "playing"
          /\ decision' # None
          /\ LET r == calculate_yield(game, decision'.irrigation,
                                      decision'.fertilizer)
             IN  r.error = "none" /\ results' = r.ret
    /\ game_state = "multi-playing" => results = None /\ results' = None

\* C14: game_state changes only along welcome->playing (after
\* load_nasa_data), welcome->multi-playing, playing->results (after exactly
\* one calculate_yield call), results->playing, results->welcome,
\* playing->welcome and multi-playing->welcome; results is never entered from
\* welcome or from multi-playing, and nothing is scored in multi-playing.
C14_OnlyListedTransitions == [][TransitionStep]_vars

\* A session that has been through multi-playing and back, then through
\* playing to results.
C14_Witness ==
    /\ game_state = "results"
    /\ results # None
    /\ dashboard_file = TRUE

\* A step into welcome from another page.
AbandonStep == game_state # "welcome" /\ game_state' = "welcome"

\* C15: every abandon transition into welcome, from playing, from results and
\* from multi-playing, leaves session_state.game and session_state.results
\* None.
C15_AbandonDiscards ==
    [][AbandonStep => game' = None /\ results' = None]_vars

\* The retry step.
RetryStep == game_state = "results" /\ game_state' = "playing"

\* C16: the retry results->playing leaves the game object, its scenario and
\* its climate data as they were and clears only the stored results; the
\* summary analysed afterwards is the one analysed before, and scoring the
\* decision of the cleared results again gives their yield.
C16_RetryKeepsGame ==
    [][RetryStep =>
          /\ game' = game
          /\ results' = None
          /\ UNCHANGED <<fetcher_vars, current_scenario, show_dashboard,
                         dashboard_file>>
          /\ analyze_conditions(game') = analyze_conditions(game)
          /\ calculate_yield(game', decision.irrigation,
                             decision.fertilizer).ret.yield = results.yield
      ]_vars

\* Back on the playing page after a harvest that was put on record.
C16_Witness ==
    /\ game_state = "playing"
    /\ results = None
    /\ observed # None
    /\ game # None
    /\ game.nasa_data # None

\* C20: on the playing page session_state.game is a simulator for the
\* scenario named by current_scenario holding the data load_nasa_data got for
\* that scenario's location; on the results page session_state.results is the
\* non-null outcome of calculate_yield on that same game.
C20_PagesHaveTheirObjects ==
    game_state \in {"playing", "results"} =>
        /\ game # None
        /\ game.scenario = SCENARIOS[current_scenario]
        /\ game.nasa_data # None
        /\ game.nasa_data = last_call.ret
        /\ last_call.key = cache_key(game.scenario.location.lat,
                                     game.scenario.location.lon, DefaultDays)
        /\ game_state = "results" =>
              /\ results # None
              /\ decision # None
              /\ results = calculate_yield(game, decision.irrigation,
                                           decision.fertilizer).ret

\* The results of a game whose data came out of the cache.
C20_Witness ==
    /\ game_state = "results"
    /\ results # None
    /\ last_call.source = "cache"

(***************************************************************************)
(* Claims about the fallback generator, checked under SpecSample.          *)
(***************************************************************************)
\* The range of a fallback value: its least value and its width.
SampleRange(p, i) ==
    CASE p = "T2M" -> [lo |-> 20000 + (i % 10) * 1000, width |-> 3000]
      [] p = "PRECTOTCORR" -> [lo |-> 2500 + (i % 5) * 1000, width |-> 1000]
      [] p = "GWETROOT" -> [lo |-> 300 + (i % 3) * 100, width |-> 100]
      [] OTHER -> [lo |-> 5500, width |-> 1000]

\* C17: _get_sample_data(days) returns four series of exactly days entries,
\* the value of day index i inside the range of its formula; another call
\* with the same days gives the same dates, and values that differ by less
\* than the width of the perturbation.
C17_SampleShapeAndRanges ==
    last_call.source = "fallback" =>
        LET days == last_call.days
            params == last_call.ret.body.properties.parameter
        IN  /\ DOMAIN params = PARAMETERS
            /\ \A p \in PARAMETERS :
                  /\ Len(params[p]) = days
                  /\ \A i \in 1..Len(params[p]) :
                        LET range == SampleRange(p, i - 1)
                        IN  /\ params[p][i].value >= range.lo
                            /\ params[p][i].value < range.lo + range.width
            /\ \A rnd \in UniformDraws(days) :
                  LET other == _get_sample_data(days, now, rnd)
                                  .properties.parameter
                  IN  \A p \in PARAMETERS :
                        /\ Len(other[p]) = Len(params[p])
                        /\ \A i \in 1..Len(params[p]) :
                              /\ other[p][i].date = params[p][i].date
                              /\ Abs(other[p][i].value - params[p][i].value)
                                    < SampleRange(p, i - 1).width

\* Sample data long enough for every cycle of the formulas to wrap around,
\* with draws at both ends.
C17_Witness ==
    /\ last_call.source = "fallback"
    /\ last_call.days >= 11
    /\ LET temps == RawSeries(last_call.ret, "T2M")
       IN  temps[1] = 20000 /\ temps[2] = 23997 /\ temps[11] = 20000

\* C19: on fallback data avg_soil_moisture is in [0.30, 0.50],
\* avg_precipitation at least 2.5 and avg_temperature below 30, so the
\* irrigation is scored by the normal-moisture branch and the
\* recommendations are the single 'conditions optimal' message.
C19_FallbackIsOptimal ==
    last_call.source = "fallback" /\ analysis # None =>
        /\ analysis.avg_soil_moisture >= 30
        /\ analysis.avg_soil_moisture <= 50
        /\ analysis.avg_precipitation >= 250
        /\ analysis.avg_temperature < 300
        /\ recs.list = <<ConditionsOptimal>>
        /\ \A irrigation \in SliderMin..SliderMax :
              IrrigationScore(analysis.avg_soil_moisture, irrigation,
                              game.scenario.optimal)
                = Max(0, 40 - Abs(irrigation
                                    - game.scenario.optimal.irrigation))

\* Fallback data at the wet end: three days, each draw at the top, analysed.
C19_Witness ==
    /\ last_call.source = "fallback"
    /\ analysis # None
    /\ analysis.avg_soil_moisture = 50
    /\ recs # None

(***************************************************************************)
(* Claims about scoring any integers, checked under SpecWide for data of   *)
(* the expected shape and under SpecScore for whatever was loaded.         *)
(***************************************************************************)
\* The score before the clamp is in [50, 145] and is the yield returned.
UnclampedInRange ==
    game_state = "results" =>
        LET b == BaseYield(game, decision.irrigation, decision.fertilizer)
        IN  /\ b >= 100
            /\ b <= 290
            /\ results.yield = b
            /\ results.yield \notin {0, 300}

\* On the playing page a game with climate data loaded scores every decision
\* without raising.
NeverRaises ==
    game_state = "playing" /\ game # None /\ game.nasa_data # None =>
        \A irrigation \in WideLevels, fertilizer \in WideLevels :
           calculate_yield(game, irrigation, fertilizer).error = "none"

\* The least score, from a decision far below the sliders' range on dry
\* soil.
LeastScoreReached ==
    /\ game_state = "results"
    /\ decision.irrigation = -1000
    /\ decision.fertilizer = -1000
    /\ results.yield = 100

\* C18: for every integer irrigation and fertilizer, every optimal pair and
\* every soil moisture the unclamped score is in [50, 145], so the clamp
\* leaves it as it is and a yield of 0 or of 150 does not occur; and once
\* climate data is loaded no decision makes calculate_yield raise.
C18_InRangeAndNeverRaises == UnclampedInRange /\ NeverRaises

====
